---- MODULE Spec2Model ----
(***************************************************************************)
(* Model of PM10AHDS.py: the driver of a Power-Mate PM10AHDS power meter.  *)
(* Byte strings and text are sequences of byte values / code points.       *)
(* Python integers are kept as decimal digit sequences (they are unbounded *)
(* in the program), and the floating point results of the unit conversions *)
(* are kept as exact decimal numbers  digits * 10^exp.                     *)
(***************************************************************************)
EXTENDS Integers, Sequences, FiniteSets, TLC

VARIABLES address, pc, op, command, packet, wire, resp, ret
vars == <<address, pc, op, command, packet, wire, resp, ret>>

(***************************************************************************)
(* Bounds of the model.                                                    *)
(***************************************************************************)
MaxCmdLen == 2        \* longest exhaustively enumerated command
MaxPayloadLen == 2    \* longest exhaustively enumerated response payload
MaxFieldDelta == 1    \* status responses carry 11 +/- MaxFieldDelta fields

(***************************************************************************)
(* Byte values the program names.                                          *)
(***************************************************************************)
SOM_TX == 60          \* b'<'
SOM_RX == 62          \* '>' (the code compares with 62)
SEP == 59             \* b';'
COMMA == 44           \* ','
CR == 13
LF == 10
TYPE_S == 83          \* 'S'
TYPE_E == 69          \* 'E'
MOD == 65536
MIN_ADDRESS == 1
MAX_ADDRESS == 254
NUM_FIELDS == 11

\* Python's None where a byte string is expected: a sequence that holds no
\* byte value.
None == << -1 >>

(***************************************************************************)
(* Python built-ins used by the driver.                                    *)
(***************************************************************************)
RECURSIVE ByteSum(_)
\* sum(list(bytearray(b)))
ByteSum(b) ==
    IF Len(b) = 0 THEN 0
    ELSE IF Len(b) = 1 THEN b[1]
    ELSE LET h == Len(b) \div 2
         IN  ByteSum(SubSeq(b, 1, h)) + ByteSum(SubSeq(b, h + 1, Len(b)))

HexDigitLower(d) == IF d < 10 THEN 48 + d ELSE 87 + d

RECURSIVE HexLower(_)
\* the digits of format type 'x', without padding
HexLower(n) ==
    IF n < 16 THEN <<HexDigitLower(n)>>
    ELSE Append(HexLower(n \div 16), HexDigitLower(n % 16))

\* the '0w' part of a format spec: zero padding up to a MINIMUM width w
ZeroPad(s, w) ==
    IF Len(s) >= w THEN s
    ELSE [i \in 1..(w - Len(s)) |-> 48] \o s

\* str.upper() on ASCII text
Upper(s) == [i \in 1..Len(s) |-> IF s[i] \in 97..122 THEN s[i] - 32 ELSE s[i]]

\* f"{n:0wx}".upper().encode()
FormatHex(n, w) == Upper(ZeroPad(HexLower(n), w))

\* positions of the byte d in s
Positions(s, d) == {i \in 1..Len(s) : s[i] = d}

Min(S) == CHOOSE x \in S : \A y \in S : x <= y

RECURSIVE Split(_, _)
\* bytes.split(d) / str.split(d) for a one-element separator
Split(s, d) ==
    IF Positions(s, d) = {} THEN <<s>>
    ELSE LET i == Min(Positions(s, d))
         IN  <<SubSeq(s, 1, i - 1)>> \o Split(SubSeq(s, i + 1, Len(s)), d)

\* the bytes that bytes.strip() removes, which are also the ones int()
\* skips around an ASCII numeral
Whitespace == {9, 10, 11, 12, 13, 32}

RECURSIVE LStrip(_)
LStrip(s) == IF s # <<>> /\ s[1] \in Whitespace THEN LStrip(Tail(s)) ELSE s

RECURSIVE RStrip(_)
RStrip(s) ==
    IF s # <<>> /\ s[Len(s)] \in Whitespace
    THEN RStrip(SubSeq(s, 1, Len(s) - 1)) ELSE s

\* bytes.strip()
Strip(s) == RStrip(LStrip(s))

\* packet[1:3]: a slice never fails, it is cut to the bytes that exist
Slice1to3(p) == SubSeq(p, 2, IF Len(p) < 3 THEN Len(p) ELSE 3)

\* bytes.decode(): a byte >= 0x80 that is not part of a well-formed UTF-8
\* sequence raises UnicodeDecodeError.  The responses of this model hold at
\* most one such byte, which is never well-formed on its own.
Decodable(b) == \A i \in 1..Len(b) : b[i] < 128

(***************************************************************************)
(* __init__                                                                *)
(***************************************************************************)
AddressOK(a) == ~((a < MIN_ADDRESS) \/ (a > MAX_ADDRESS))

(***************************************************************************)
(* construct_packet                                                        *)
(***************************************************************************)
AddressBytes(a) == FormatHex(a, 2)

ConstructChecksumNoMod(body) == FormatHex(ByteSum(body), 4)
ConstructChecksum(body) == FormatHex(ByteSum(body) % MOD, 4)

construct_packet(a, cmd) ==
    LET body == AddressBytes(a) \o cmd
    IN  <<SOM_TX>> \o body \o <<SEP>> \o ConstructChecksum(body) \o <<CR, LF>>

(***************************************************************************)
(* validate_packet: "True", "False", or "IndexError" when packet[0] is     *)
(* read from an empty packet.                                              *)
(***************************************************************************)
ExpectedAddress(a) == FormatHex(a, 2)

ValidateChecksumWholeBody(body) == FormatHex(ByteSum(body) % MOD, 4)
ValidateChecksum(body) == FormatHex(ByteSum(Tail(body)) % MOD, 4)

validate_packet(a, p) ==
    IF p = <<>> THEN "IndexError"
    ELSE IF p[1] # SOM_RX THEN "False"
    ELSE IF Slice1to3(p) # ExpectedAddress(a) THEN "False"
    ELSE LET parts == Split(p, SEP)
         IN  IF Len(parts) < 2 THEN "False"
             ELSE IF parts[2] # ValidateChecksum(parts[1]) THEN "False"
             ELSE "True"

(***************************************************************************)
(* int(text): [ok |-> FALSE] stands for ValueError.  The value is a sign   *)
(* and the decimal digits, most significant first, without leading zeros.  *)
(***************************************************************************)
Digits == 48..57

RECURSIVE DropLeadingZeros(_)
DropLeadingZeros(ds) ==
    IF Len(ds) > 1 /\ ds[1] = 0 THEN DropLeadingZeros(Tail(ds)) ELSE ds

\* digits, with single underscores (95) allowed between two digits
NumeralOK(t) ==
    /\ t # <<>>
    /\ t[1] \in Digits
    /\ t[Len(t)] \in Digits
    /\ \A i \in 1..Len(t) : t[i] \in Digits \/ t[i] = 95
    /\ \A i \in 1..(Len(t) - 1) : ~(t[i] = 95 /\ t[i + 1] = 95)

DigitValues(t) ==
    LET keep == SelectSeq(t, LAMBDA c : c \in Digits)
    IN  [i \in 1..Len(keep) |-> keep[i] - 48]

int(text) ==
    LET t    == Strip(text)
        sgn  == t # <<>> /\ t[1] \in {43, 45}      \* '+' or '-'
        body == IF sgn THEN Tail(t) ELSE t
    IN  IF ~NumeralOK(body) THEN [ok |-> FALSE, neg |-> FALSE, digits |-> <<>>]
        ELSE LET ds == DropLeadingZeros(DigitValues(body))
             IN  [ok |-> TRUE,
                  neg |-> sgn /\ t[1] = 45 /\ ds # <<0>>,
                  digits |-> ds]

(***************************************************************************)
(* Exact decimal arithmetic for the unit conversions: a number is          *)
(* (+/-) digits * 10^exp, digits most significant first and without        *)
(* trailing zeros.                                                         *)
(***************************************************************************)
Reverse(s) == [i \in 1..Len(s) |-> s[Len(s) + 1 - i]]

RECURSIVE AddLE(_, _, _)
AddLE(x, y, c) ==
    IF x = <<>> /\ y = <<>> THEN (IF c = 0 THEN <<>> ELSE <<c>>)
    ELSE LET dx == IF x = <<>> THEN 0 ELSE x[1]
             dy == IF y = <<>> THEN 0 ELSE y[1]
             t  == dx + dy + c
         IN  <<t % 10>> \o AddLE(IF x = <<>> THEN x ELSE Tail(x),
                                 IF y = <<>> THEN y ELSE Tail(y), t \div 10)

RECURSIVE MulDigitLE(_, _, _)
MulDigitLE(x, d, c) ==
    IF x = <<>> THEN (IF c = 0 THEN <<>> ELSE <<c>>)
    ELSE LET t == x[1] * d + c
         IN  <<t % 10>> \o MulDigitLE(Tail(x), d, t \div 10)

RECURSIVE MulLE(_, _)
MulLE(x, y) ==
    IF y = <<>> THEN <<>>
    ELSE AddLE(MulDigitLE(x, y[1], 0), <<0>> \o MulLE(x, Tail(y)), 0)

\* product of two digit sequences (most significant digit first)
MulDigits(x, y) == DropLeadingZeros(Reverse(MulLE(Reverse(x), Reverse(y))))

RECURSIVE Normalise(_)
Normalise(d) ==
    IF d.digits = <<0>> THEN [neg |-> FALSE, digits |-> <<0>>, exp |-> 0]
    ELSE IF d.digits[Len(d.digits)] = 0
    THEN Normalise([d EXCEPT !.digits = SubSeq(d.digits, 1, Len(d.digits) - 1),
                             !.exp = d.exp + 1])
    ELSE d

\* n * 2.7777777777778E-10
MilliJoulesToKWh(n) ==
    Normalise([neg |-> n.neg,
               digits |-> MulDigits(n.digits, <<2,7,7,7,7,7,7,7,7,7,7,7,7,8>>),
               exp |-> -23])

\* n / 1e3
Div1e3(n) == Normalise([neg |-> n.neg, digits |-> n.digits, exp |-> -3])

\* n / 1e6
Div1e6(n) == Normalise([neg |-> n.neg, digits |-> n.digits, exp |-> -6])

(***************************************************************************)
(* Results of the two requests: what is returned or raised (kind, val),    *)
(* and which stages the request went through.                              *)
(***************************************************************************)
Outcome(k, v, validated, decoded) ==
    [kind |-> k, val |-> v, validated |-> validated, decoded |-> decoded]

Exceptions == {"IndexError", "ValueError", "UnicodeDecodeError"}

\* _resp == b'' or _resp == None
IsNoResponseNoneOnly(r) == r = None
IsNoResponse(r) == r = <<>> \/ r = None

(***************************************************************************)
(* request_status                                                          *)
(***************************************************************************)
\* _fields[i] of the Python list (0-based)
Field(fields, i) == fields[i + 1]

FieldCountOK(fields) == ~(Len(fields) # NUM_FIELDS)

\* the reading with the first four conversions taken one field too far
StatusReadingOffByOne(fields) ==
    [runtime_seconds     |-> [neg |-> int(Field(fields, 4)).neg,
                              digits |-> int(Field(fields, 4)).digits],
     energy_kwh          |-> MilliJoulesToKWh(int(Field(fields, 5))),
     power_w             |-> Div1e3(int(Field(fields, 6))),
     voltage_v           |-> Div1e6(int(Field(fields, 7))),
     current_a           |-> Div1e6(int(Field(fields, 7))),
     powerfactor_leadlag |-> IF Field(fields, 8) = <<49>> THEN "lag" ELSE "lead",
     powerfactor         |-> Div1e6(int(Field(fields, 9))),
     apparent_power_va   |-> Div1e3(int(Field(fields, 10)))]

\* the output dictionary, when every int() succeeds
StatusReading(fields) ==
    [runtime_seconds     |-> [neg |-> int(Field(fields, 3)).neg,
                              digits |-> int(Field(fields, 3)).digits],
     energy_kwh          |-> MilliJoulesToKWh(int(Field(fields, 4))),
     power_w             |-> Div1e3(int(Field(fields, 5))),
     voltage_v           |-> Div1e6(int(Field(fields, 6))),
     current_a           |-> Div1e6(int(Field(fields, 7))),
     powerfactor_leadlag |-> IF Field(fields, 8) = <<49>> THEN "lag" ELSE "lead",
     powerfactor         |-> Div1e6(int(Field(fields, 9))),
     apparent_power_va   |-> Div1e3(int(Field(fields, 10)))]

\* the fields that int() is applied to
IntFields == {3, 4, 5, 6, 7, 9, 10}

\* the first field, in the order the code reads them, that raises
BadField(fields, i) ==
    i + 1 > Len(fields) \/ (i \in IntFields /\ ~int(Field(fields, i)).ok)

DecodeStatus(body) ==
    IF Len(body) < 4 THEN Outcome("IndexError", <<>>, TRUE, TRUE)
    ELSE IF body[4] # TYPE_S THEN Outcome("None", <<>>, TRUE, TRUE)
    ELSE LET fields == Split(body, COMMA)
             bad    == {i \in 3..10 : BadField(fields, i)}
         IN  IF ~FieldCountOK(fields) THEN Outcome("None", <<>>, TRUE, TRUE)
             ELSE IF bad # {}
             THEN Outcome(IF Min(bad) + 1 > Len(fields)
                          THEN "IndexError" ELSE "ValueError", <<>>, TRUE, TRUE)
             ELSE Outcome("dict", StatusReading(fields), TRUE, TRUE)

request_status(a, r) ==
    IF IsNoResponse(r) THEN Outcome("None", <<>>, FALSE, FALSE)
    ELSE LET s == Strip(r)
             v == validate_packet(a, s)
         IN  IF v = "IndexError" THEN Outcome("IndexError", <<>>, TRUE, FALSE)
             ELSE IF v = "False" THEN Outcome("None", <<>>, TRUE, FALSE)
             ELSE LET body == Split(s, SEP)[1]
                  IN  IF ~Decodable(body)
                      THEN Outcome("UnicodeDecodeError", <<>>, TRUE, TRUE)
                      ELSE DecodeStatus(body)

(***************************************************************************)
(* request_erase                                                           *)
(***************************************************************************)
request_erase(a, r) ==
    IF IsNoResponse(r) THEN Outcome("None", <<>>, FALSE, FALSE)
    ELSE LET s == Strip(r)
         IN  IF ~Decodable(s)
             THEN Outcome("UnicodeDecodeError", <<>>, FALSE, TRUE)
             ELSE IF Len(s) < 4 THEN Outcome("IndexError", <<>>, FALSE, TRUE)
             ELSE IF s[4] = TYPE_E THEN Outcome("True", <<>>, FALSE, TRUE)
             ELSE Outcome("False", <<>>, FALSE, TRUE)

(***************************************************************************)
(* Inputs.  Commands are byte strings (a str command is first encoded).    *)
(***************************************************************************)
AddressCandidates == {0, 1, 171, 254, 255}
Addresses == {a \in AddressCandidates : AddressOK(a)}

SeqsUpTo(S, n) == UNION {[1..m -> S] : m \in 0..n}

CommandAlphabet == {0, 44, 59, 69, 83, 255}

\* a command that makes the checksum body sum to exactly 65536
WrapCommand(a) ==
    [i \in 1..257 |-> IF i <= 256 THEN 255 ELSE 256 - ByteSum(FormatHex(a, 2))]

\* a command whose checksum body sums to more than 65536
LongCommand == [i \in 1..258 |-> 255]

STATUS_COMMAND == <<83, 44>>     \* b'S,'
ERASE_COMMAND == <<69, 44>>      \* b'E,'

Commands(a) ==
    SeqsUpTo(CommandAlphabet, MaxCmdLen) \cup {WrapCommand(a), LongCommand}

(***************************************************************************)
(* The device side of the wire: a meter with address d answers with        *)
(*   start, address field, payload [, ';', checksum] [, trailing bytes].   *)
(***************************************************************************)
DeviceChecksum(n) == FormatHex(n % MOD, 4)

Frame(start, d, payload, cks, suffix) ==
    LET body == FormatHex(d, 2) \o payload
    IN  <<start>> \o body
        \o (CASE cks = "good" -> <<SEP>> \o DeviceChecksum(ByteSum(body))
              [] cks = "bad"  -> <<SEP>> \o DeviceChecksum(ByteSum(body) + 1)
              [] cks = "none" -> <<>>)
        \o suffix

PayloadAlphabet == {83, 69, 88, 44, 59, 51}     \* S E X , ; 3

ShortPayloads == SeqsUpTo(PayloadAlphabet, MaxPayloadLen)

\* payloads that carry, after a '3', the checksum text of what precedes it
EmbeddedPayloads(d) ==
    {p \o <<51>> \o DeviceChecksum(ByteSum(FormatHex(d, 2) \o p)) :
        p \in {q \in ShortPayloads : Positions(q, SEP) = {}}}

RECURSIVE Join(_)
\* ",f1,f2,...": every field preceded by a comma
Join(fs) == IF fs = <<>> THEN <<>> ELSE <<COMMA>> \o fs[1] \o Join(Tail(fs))

\* "0" "12" "" "x" "-5" "1_0" " 7" "1__0"
FieldValues ==
    {<<48>>, <<49, 50>>, <<>>, <<120>>, <<45, 53>>, <<49, 95, 48>>,
     <<32, 55>>, <<49, 95, 95, 48>>}

\* status payloads of n fields (the type byte closes field 0), all "1" but one
StatusPayloads ==
    {<<TYPE_S>> \o Join([j \in 1..(n - 1) |-> IF j = i THEN v ELSE <<49>>]) :
        n \in (NUM_FIELDS - MaxFieldDelta)..(NUM_FIELDS + MaxFieldDelta),
        i \in 1..(NUM_FIELDS + MaxFieldDelta - 1),
        v \in FieldValues}

\* S,0,0,12627447,89716830841,3200,244535000,32400,1,404360,7927
ExamplePayload ==
    <<83, 44, 48, 44, 48, 44, 49, 50, 54, 50, 55, 52, 52, 55, 44, 56, 57, 55,
      49, 54, 56, 51, 48, 56, 52, 49, 44, 51, 50, 48, 48, 44, 50, 52, 52, 53,
      51, 53, 48, 48, 48, 44, 51, 50, 52, 48, 48, 44, 49, 44, 52, 48, 52, 51,
      54, 48, 44, 55, 57, 50, 55>>

\* payloads with one byte that is not ASCII
NoisyPayloads == {<<255>>, <<TYPE_S, 255>>, <<TYPE_E, 200>>}

Payloads(d) ==
    ShortPayloads \cup EmbeddedPayloads(d) \cup StatusPayloads
        \cup NoisyPayloads \cup {ExamplePayload}

Suffixes == {<<>>, <<SEP, 88>>}

\* a meter at another address on the same line
OtherAddress(a) == IF a = MIN_ADDRESS THEN MAX_ADDRESS ELSE a - 1

\* the frames that can reach a driver with address a
Frames(a) ==
    {Frame(start, d, p, cks, sfx) :
        start \in {SOM_RX, SOM_TX}, d \in {a, OtherAddress(a)},
        p \in Payloads(a),
        cks \in {"good", "bad", "none"}, sfx \in Suffixes}

\* what readline() can return: a line, nothing (timeout), or None
Lines(a) ==
    {f \o <<CR, LF>> : f \in Frames(a)} \cup {<<>>, None, <<CR, LF>>, <<LF>>}

\* well-formed frames of a meter with address d, before line noise
CleanFrames(d) ==
    {Frame(SOM_RX, d, p, "good", sfx) :
        p \in ShortPayloads \cup EmbeddedPayloads(d), sfx \in Suffixes}

Pow2(k) == IF k = 0 THEN 1 ELSE IF k = 1 THEN 2 ELSE IF k = 2 THEN 4
           ELSE IF k = 3 THEN 8 ELSE IF k = 4 THEN 16 ELSE IF k = 5 THEN 32
           ELSE IF k = 6 THEN 64 ELSE 128

\* byte b with bit k inverted
FlipBit(b, k) ==
    IF (b \div Pow2(k)) % 2 = 1 THEN b - Pow2(k) ELSE b + Pow2(k)

Corrupt(f, i, k) == [f EXCEPT ![i] = FlipBit(f[i], k)]

\* a transmitted packet as the meter would echo it: '>' for '<', no CR LF
Echo(p) == <<SOM_RX>> \o SubSeq(p, 2, Len(p) - 2)

(***************************************************************************)
(* The driver and its single, synchronous caller.                          *)
(***************************************************************************)
NoOutcome == Outcome("", <<>>, FALSE, FALSE)

Init ==
    /\ address \in Addresses
    /\ pc = "ready"
    /\ op = "__init__"
    /\ command = <<>>
    /\ packet = <<>>
    /\ wire = <<>>
    /\ resp = <<>>
    /\ ret = NoOutcome

ConstructPacket ==
    /\ pc = "ready"
    /\ \E c \in Commands(address) :
          /\ command' = c
          /\ packet' = construct_packet(address, c)
    /\ pc' = "returned"
    /\ op' = "construct_packet"
    /\ wire' = <<>>
    /\ resp' = <<>>
    /\ ret' = Outcome("bytes", <<>>, FALSE, FALSE)
    /\ UNCHANGED address

\* the caller validates the echo of the packet it has just built
ValidateEcho ==
    /\ pc = "returned"
    /\ op = "construct_packet"
    /\ op' = "validate_packet"
    /\ wire' = Echo(packet)
    /\ resp' = Echo(packet)
    /\ ret' = Outcome(validate_packet(address, Echo(packet)), <<>>, TRUE, FALSE)
    /\ UNCHANGED <<address, pc, command, packet>>

\* validate_packet on a frame as the meter sent it
ValidatePacket ==
    /\ pc = "ready"
    /\ \E f \in Frames(address) :
          /\ wire' = f
          /\ resp' = f
          /\ ret' = Outcome(validate_packet(address, f), <<>>, TRUE, FALSE)
    /\ pc' = "returned"
    /\ op' = "validate_packet"
    /\ command' = <<>>
    /\ packet' = <<>>
    /\ UNCHANGED address

\* validate_packet on a frame that line noise has inverted one bit of
ValidateCorrupted ==
    /\ pc = "ready"
    /\ \E f \in CleanFrames(address) : \E i \in 2..Len(f) : \E k \in 0..7 :
          /\ wire' = f
          /\ resp' = Corrupt(f, i, k)
          /\ ret' = Outcome(validate_packet(address, Corrupt(f, i, k)),
                            <<>>, TRUE, FALSE)
    /\ pc' = "returned"
    /\ op' = "validate_packet"
    /\ command' = <<>>
    /\ packet' = <<>>
    /\ UNCHANGED address

\* request_status, with l the value readline() returns
RequestStatus ==
    /\ pc = "ready"
    /\ \E l \in Lines(address) :
          /\ wire' = l
          /\ resp' = l
          /\ ret' = request_status(address, l)
    /\ pc' = "returned"
    /\ op' = "request_status"
    /\ command' = STATUS_COMMAND
    /\ packet' = construct_packet(address, STATUS_COMMAND)
    /\ UNCHANGED address

\* request_erase, with l the value readline() returns
RequestErase ==
    /\ pc = "ready"
    /\ \E l \in Lines(address) :
          /\ wire' = l
          /\ resp' = l
          /\ ret' = request_erase(address, l)
    /\ pc' = "returned"
    /\ op' = "request_erase"
    /\ command' = ERASE_COMMAND
    /\ packet' = construct_packet(address, ERASE_COMMAND)
    /\ UNCHANGED address

\* the caller has used the result; nothing but the address is kept
Return ==
    /\ pc = "returned"
    /\ pc' = "ready"
    /\ op' = "__init__"
    /\ command' = <<>>
    /\ packet' = <<>>
    /\ wire' = <<>>
    /\ resp' = <<>>
    /\ ret' = NoOutcome
    /\ UNCHANGED address

Next ==
    \/ ConstructPacket
    \/ ValidateEcho
    \/ ValidatePacket
    \/ ValidateCorrupted
    \/ RequestStatus
    \/ RequestErase
    \/ Return

Spec == Init /\ [][Next]_vars

(***************************************************************************)
(* The framer and the validator alone, at every address the constructor    *)
(* accepts.                                                                *)
(***************************************************************************)
InitFramer ==
    /\ address \in {a \in 0..255 : AddressOK(a)}
    /\ pc = "ready"
    /\ op = "__init__"
    /\ command = <<>>
    /\ packet = <<>>
    /\ wire = <<>>
    /\ resp = <<>>
    /\ ret = NoOutcome

NextFramer ==
    \/ ConstructPacket
    \/ ValidateEcho
    \/ Return

SpecFramer == InitFramer /\ [][NextFramer]_vars

(***************************************************************************)
(* Vocabulary of the properties.  The wire format is stated here by        *)
(* READING hexadecimal text, where the driver writes it.                   *)
(***************************************************************************)
Returned(o) == pc = "returned" /\ op = o

HexValue(c) ==
    IF c \in 48..57 THEN c - 48 ELSE IF c \in 65..70 THEN c - 55 ELSE -1

IsUpperHex(s) == \A i \in 1..Len(s) : HexValue(s[i]) >= 0

RECURSIVE HexNumber(_)
HexNumber(s) ==
    IF s = <<>> THEN 0
    ELSE 16 * HexNumber(SubSeq(s, 1, Len(s) - 1)) + HexValue(s[Len(s)])

\* s is the number n written as exactly w uppercase hexadecimal digits
IsHexOf(s, n, w) == Len(s) = w /\ IsUpperHex(s) /\ HexNumber(s) = n

\* the bytes of f before its first ';' (all of f when it has none)
BodyOf(f) ==
    IF Positions(f, SEP) = {} THEN f ELSE SubSeq(f, 1, Min(Positions(f, SEP)) - 1)

\* the bytes of f after its first ';'
AfterSep(f) == SubSeq(f, Min(Positions(f, SEP)) + 1, Len(f))

\* a response frame as the protocol defines it for a meter at address a:
\* '>', address, payload, one ';', four checksum digits
WellFormed(a, f) ==
    /\ Len(f) >= 8
    /\ f[1] = SOM_RX
    /\ Cardinality(Positions(f, SEP)) = 1
    /\ Len(BodyOf(f)) >= 3
    /\ IsHexOf(SubSeq(f, 2, 3), a, 2)
    /\ IsHexOf(AfterSep(f), ByteSum(Tail(BodyOf(f))) % MOD, 4)

\* the validator of the driver accepts s
Accepted(a, s) == s # <<>> /\ s # None /\ validate_packet(a, s) = "True"

\* the eight keys of a reading
ReadingKeys ==
    {"runtime_seconds", "energy_kwh", "power_w", "voltage_v", "current_a",
     "powerfactor_leadlag", "powerfactor", "apparent_power_va"}

Dec(ds, e) == [neg |-> FALSE, digits |-> ds, exp |-> e]

\* x is a positive number with n digits before the decimal point whose
\* leading digits are ds
Approx(x, ds, n) ==
    /\ ~x.neg
    /\ Len(x.digits) >= Len(ds)
    /\ SubSeq(x.digits, 1, Len(ds)) = ds
    /\ Len(x.digits) + x.exp = n

\* >01S,0,0,12627447,89716830841,3200,244535000,32400,1,404360,7927;0C74
ExampleResponse == <<62, 48, 49>> \o ExamplePayload \o <<59, 48, 67, 55, 52>>

C2_RoundTripAnyCommand ==
    (Returned("validate_packet") /\ packet # <<>>) => ret.kind = "True"

(***************************************************************************)
(* C2 (amended): for every command that holds no ';' byte, the echo of the *)
(* packet that construct_packet built is accepted by validate_packet.      *)
(***************************************************************************)
C2_RoundTrip ==
    (Returned("validate_packet") /\ packet # <<>>
        /\ Positions(command, SEP) = {}) => ret.kind = "True"

\* the echo of a packet with a non-empty command has been accepted
C2_Witness ==
    /\ Returned("validate_packet")
    /\ packet # <<>>
    /\ Len(command) = MaxCmdLen
    /\ Positions(command, SEP) = {}
    /\ resp = Echo(packet)
    /\ ret.kind = "True"

(***************************************************************************)
(* C3: validate_packet rejects every frame with a correct checksum whose   *)
(* address field is not the driver's, and every frame obtained from a      *)
(* well-formed frame for this driver by inverting one bit of one byte      *)
(* between the start marker and the ';'.                                   *)
(***************************************************************************)
C3_RejectsCorruption ==
    (Returned("validate_packet") /\ packet = <<>>) =>
        /\ (/\ resp = wire
            /\ \E a \in 0..255 : a # address /\ WellFormed(a, resp))
                => ret.kind = "False"
        /\ (/\ resp # wire
            /\ WellFormed(address, wire)
            /\ \E i \in 2..Len(BodyOf(wire)) : resp[i] # wire[i])
                => ret.kind = "False"

(***************************************************************************)
(* C4 (as stated): the example status response decodes, at address 1, to   *)
(* runtime 0 s, energy about 35.07 kWh, 3.2 W, 244.535 V, 0.0324 A, lag,   *)
(* power factor 0.40436 and 7.927 VA.                                      *)
(***************************************************************************)
C4_ExampleAsStated ==
    (Returned("request_status") /\ address = 1
        /\ Strip(resp) = ExampleResponse) =>
        /\ ret.kind = "dict"
        /\ ret.val.runtime_seconds = [neg |-> FALSE, digits |-> <<0>>]
        /\ Approx(ret.val.energy_kwh, <<3, 5, 0, 7>>, 2)
        /\ ret.val.power_w = Dec(<<3, 2>>, -1)
        /\ ret.val.voltage_v = Dec(<<2, 4, 4, 5, 3, 5>>, -3)
        /\ ret.val.current_a = Dec(<<3, 2, 4>>, -4)
        /\ ret.val.powerfactor_leadlag = "lag"
        /\ ret.val.powerfactor = Dec(<<4, 0, 4, 3, 6>>, -5)
        /\ ret.val.apparent_power_va = Dec(<<7, 9, 2, 7>>, -3)

(***************************************************************************)
(* C4 (amended): the example status response decodes, at address 1, to     *)
(* runtime 12627447 s, energy about 24.92 kWh, 3.2 W, 244.535 V, 0.0324 A, *)
(* lag, power factor 0.40436 and 7.927 VA.                                 *)
(***************************************************************************)
C4_Example ==
    (Returned("request_status") /\ address = 1
        /\ Strip(resp) = ExampleResponse) =>
        /\ ret.kind = "dict"
        /\ ret.val.runtime_seconds =
               [neg |-> FALSE, digits |-> <<1, 2, 6, 2, 7, 4, 4, 7>>]
        /\ Approx(ret.val.energy_kwh, <<2, 4, 9, 2>>, 2)
        /\ ret.val.power_w = Dec(<<3, 2>>, -1)
        /\ ret.val.voltage_v = Dec(<<2, 4, 4, 5, 3, 5>>, -3)
        /\ ret.val.current_a = Dec(<<3, 2, 4>>, -4)
        /\ ret.val.powerfactor_leadlag = "lag"
        /\ ret.val.powerfactor = Dec(<<4, 0, 4, 3, 6>>, -5)
        /\ ret.val.apparent_power_va = Dec(<<7, 9, 2, 7>>, -3)

\* the example response has been read and decoded into a reading
C4_Witness ==
    /\ Returned("request_status")
    /\ address = 1
    /\ Strip(resp) = ExampleResponse
    /\ ret.kind = "dict"

(***************************************************************************)
(* C5: whatever readline returns, request_status and request_erase return  *)
(* a result or a failure value; no exception escapes.                      *)
(***************************************************************************)
C5_NeverRaises ==
    (Returned("request_status") \/ Returned("request_erase"))
        => ret.kind \notin Exceptions

(***************************************************************************)
(* C6: request_erase acknowledges a response whose byte at offset 3 is     *)
(* 'E', and reports a response with any other byte there as a failure      *)
(* that is neither an acknowledgement nor a plain False.                   *)
(***************************************************************************)
C6_EraseDecoding ==
    (Returned("request_erase") /\ resp # None /\ Len(Strip(resp)) >= 4) =>
        /\ Strip(resp)[4] = TYPE_E => ret.kind = "True"
        /\ Strip(resp)[4] # TYPE_E => ret.kind \notin {"True", "False"}

(***************************************************************************)
(* C7: when readline returns an empty or absent response, both requests    *)
(* end with the no-response result (None) and neither the validation nor   *)
(* the decoding stage is entered.                                          *)
(***************************************************************************)
C7_NoResponse ==
    ((Returned("request_status") \/ Returned("request_erase"))
        /\ (resp = <<>> \/ resp = None)) =>
        /\ ret.kind = "None"
        /\ ~ret.validated
        /\ ~ret.decoded

\* a status request has timed out with an empty read
C7_Witness ==
    /\ Returned("request_status")
    /\ resp = <<>>
    /\ ret.kind = "None"
    /\ ~ret.validated

(***************************************************************************)
(* C8: a validated status response whose body does not split on ',' into   *)
(* exactly 11 fields makes request_status return the failure result, and   *)
(* every reading that request_status returns holds all eight keys.         *)
(***************************************************************************)
CommaFields(s) == Cardinality(Positions(BodyOf(s), COMMA)) + 1

C8_FieldCount ==
    Returned("request_status") =>
        /\ (/\ Accepted(address, Strip(resp))
            /\ Len(BodyOf(Strip(resp))) >= 4
            /\ BodyOf(Strip(resp))[4] = TYPE_S
            /\ CommaFields(Strip(resp)) # 11) => ret.kind = "None"
        /\ ret.kind = "dict" => DOMAIN ret.val = ReadingKeys
        /\ ret.kind = "dict" => CommaFields(Strip(resp)) = 11

(***************************************************************************)
(* C9: request_status returns a reading, and request_erase returns True,   *)
(* only for a response that the validator accepts (start marker, address   *)
(* and checksum).                                                          *)
(***************************************************************************)
C9_ValidatedBeforeDecoding ==
    /\ (Returned("request_status") /\ ret.kind = "dict")
           => Accepted(address, Strip(resp))
    /\ (Returned("request_erase") /\ ret.kind = "True")
           => Accepted(address, Strip(resp))

(***************************************************************************)
(* C10: validate_packet accepts a frame only if it holds exactly one ';',  *)
(* followed by a checksum field of 4 bytes.                                *)
(***************************************************************************)
C10_ExactlyOneSeparator ==
    (Returned("validate_packet") /\ ret.kind = "True") =>
        /\ Cardinality(Positions(resp, SEP)) = 1
        /\ Len(AfterSep(resp)) = 4

====
